---- MODULE Spec2Model ----
(***************************************************************************)
(* Model of generate_smart_meter_data (src/g.py): the per-meter time       *)
(* series loop that appends one measurement and up to two events per step. *)
(*                                                                         *)
(* Numbers are fixed point, exact for the draws the model enumerates:      *)
(*   time                  minutes since datetime.min (MinTime)            *)
(*   load band             tenths                                          *)
(*   jitter                hundredths                                      *)
(*   load_factor           thousandths                                     *)
(*   abnormality_factor    tenths (10 is 1.0)                              *)
(*   current_load_factor   1/10^4                                          *)
(*   active energy         1/(6*10^6) kWh                                  *)
(*   reactive energy       1/(6*10^8) kVArh                                *)
(*   maximum demand        1/10^5 kW                                       *)
(*   random.random()       thousandths                                     *)
(* datetime has a smallest and a largest value; current_time += timedelta  *)
(* raises OverflowError outside them.  MinTime..MaxTime stands for that    *)
(* range.  meter ids (uuid4 strings) are modelled by their position in     *)
(* meter_ids.  Voltages, currents and the power factor are drawn and       *)
(* stored by the code but read by nothing else except the description      *)
(* text; the records of the model leave those columns out, and an event    *)
(* description is its text without the formatted readings.                 *)
(***************************************************************************)
EXTENDS Integers, Sequences, FiniteSets

VARIABLES
  num_meters, start, end, interval_minutes,   \* the arguments (dates parsed)
  meter_ids,                                  \* line 24
  all_measurements, all_events,               \* lines 44-45
  meter_idx,                                  \* position of the for loop in meter_ids
  current_time, cumulative_energy_import, cumulative_energy_export,
  max_demand, abnormality_factor, has_abnormality,   \* lines 54-60
  current_load_factor, export_factor,         \* locals of the last loop pass
  pc                                          \* "for" | "while" | "returned" | "raised"

vars == <<num_meters, start, end, interval_minutes, meter_ids, all_measurements,
          all_events, meter_idx, current_time, cumulative_energy_import,
          cumulative_energy_export, max_demand, abnormality_factor,
          has_abnormality, current_load_factor, export_factor, pc>>

-----------------------------------------------------------------------------
(* Bounds of the model *)

MinTime == 0
MaxTime == 1439
MaxMeters == 2
MaxRecords == 3
MaxEvents == 2

(* Program constants *)

BASE_VOLTAGE == 230
MAX_CURRENT == 100
MAX_DEMAND_FACTOR == 8

\* the list with one tag misspelt
event_types_misspelt ==
  <<"POWER_OUTAGE", "VOLTAGE_SAG", "VOLTAGE_SWELL", "TAMPER_DETECT",
    "METER_COVER_OPENED", "CURRENT_IMBALANCE", "PHASE_FAILURE",
    "HIGH_TEMPERATURE", "METER_RESET">>

event_types == <<"POWER_OUTAGE", "VOLTAGE_SAG", "VOLTAGE_SWELL",
                 "TAMPER_DETECTED", "METER_COVER_OPENED",
                 "CURRENT_IMBALANCE", "PHASE_FAILURE",
                 "HIGH_TEMPERATURE", "METER_RESET">>

-----------------------------------------------------------------------------
(* Inputs and random draws *)

MeterCounts == (0 - 1)..MaxMeters
Instants == {MinTime, MinTime + 15, MinTime + 345, MinTime + 360,
             MaxTime - 29, MaxTime - 14}
Intervals == {0 - 30, 0, 15, 30}
MaxSpan == 15

\* random.random() > 0.3 keeps the factor at 1.0; otherwise uniform(0.7, 1.3)
FactorDraws == [keep : {200, 500}, uniform : {7, 10, 11, 13}]

\* one loop pass: uniform(0.95, 1.05), then the random.random() of lines 92,
\* 130, 137 and 147, then the index random.choice picks in event_types
MeasurementDraws ==
  [jitter : {95, 105}, export_draw : {500, 900}, anomaly_draw : {900},
   split_draw : {400}, background_draw : {990}, choice : {1}]

EventDraws ==
  [jitter : {100}, export_draw : {500}, anomaly_draw : {900, 960},
   split_draw : {400, 600}, background_draw : {990, 996},
   choice : 1..Len(event_types)]

-----------------------------------------------------------------------------
(* Pure parts of the loop body *)

Min(a, b) == IF a <= b THEN a ELSE b
Max(a, b) == IF a >= b THEN a ELSE b

Hour(t) == (t \div 60) % 24

BaseLoad(hour) ==
  IF 0 <= hour /\ hour < 6 THEN 3
  ELSE IF 6 <= hour /\ hour < 9 THEN 8
  ELSE IF 9 <= hour /\ hour < 17 THEN 6
  ELSE IF 17 <= hour /\ hour < 20 THEN 9
  ELSE 4

LoadFactor(t, jitter) == Min(Max(BaseLoad(Hour(t)) * jitter, 200), 1000)

DrawFactor(f) == IF f.keep > 300 THEN 10 ELSE f.uniform

ImportAccrual(clf) == clf * 25 * interval_minutes

ExportFactor(d) == IF d.export_draw > 700 THEN 3 ELSE 0

ExportAccrual(ef) == ef * 15 * interval_minutes * 1000

ReactiveImport(active) == active * 15

ReactiveExport(active) == active * 10

CurrentDemand(clf) == (clf * MAX_CURRENT * BASE_VOLTAGE) \div 1000

\* the demand of the step alone, with no running maximum
WatermarkOfStep(md, clf) == CurrentDemand(clf) * MAX_DEMAND_FACTOR

Watermark(md, clf) == Max(md, CurrentDemand(clf) * MAX_DEMAND_FACTOR)

InDatetimeRange(t) == MinTime <= t /\ t <= MaxTime

\* the comparison the other way round
WhileCondReversed == current_time >= end

WhileCond == current_time <= end

\* the two voltage branches exchanged
AnomalyTypeExchanged(factor, split_draw) ==
  IF factor > 12 THEN "VOLTAGE_SAG"
  ELSE IF factor < 8 THEN "VOLTAGE_SWELL"
  ELSE IF split_draw > 500 THEN "CURRENT_IMBALANCE"
  ELSE "PHASE_FAILURE"

AnomalyType(factor, split_draw) ==
  IF factor > 12 THEN "VOLTAGE_SWELL"
  ELSE IF factor < 8 THEN "VOLTAGE_SAG"
  ELSE IF split_draw > 500 THEN "CURRENT_IMBALANCE"
  ELSE "PHASE_FAILURE"

\* the text of lines 133-142, before the formatted readings
AnomalyDescription(type) ==
  CASE type = "VOLTAGE_SWELL" -> "Voltage swell detected"
    [] type = "VOLTAGE_SAG" -> "Voltage sag detected"
    [] type = "CURRENT_IMBALANCE" -> "Current imbalance"
    [] OTHER -> "Phase failure detected"

\* event_type.replace('_', ' ').title()
TitleCase(type) ==
  CASE type = "POWER_OUTAGE" -> "Power Outage"
    [] type = "VOLTAGE_SAG" -> "Voltage Sag"
    [] type = "VOLTAGE_SWELL" -> "Voltage Swell"
    [] type = "TAMPER_DETECTED" -> "Tamper Detected"
    [] type = "METER_COVER_OPENED" -> "Meter Cover Opened"
    [] type = "CURRENT_IMBALANCE" -> "Current Imbalance"
    [] type = "PHASE_FAILURE" -> "Phase Failure"
    [] type = "HIGH_TEMPERATURE" -> "High Temperature"
    [] OTHER -> "Meter Reset"

\* the text of lines 150-161, before the formatted temperature
BackgroundDescription(type) ==
  IF type = "POWER_OUTAGE" THEN "Power outage detected"
  ELSE IF type = "TAMPER_DETECTED" THEN "Meter tampering detected"
  ELSE IF type = "METER_COVER_OPENED" THEN "Meter cover opened"
  ELSE IF type = "HIGH_TEMPERATURE" THEN "High temperature"
  ELSE IF type = "METER_RESET" THEN "Meter reset performed"
  ELSE TitleCase(type)

\* an event stamped with the time of the next step
EventOfNextStep(type, description) ==
  [meter_id |-> meter_ids[meter_idx],
   timestamp |-> current_time + interval_minutes,
   event_type |-> type, event_description |-> description]

Event(type, description) ==
  [meter_id |-> meter_ids[meter_idx], timestamp |-> current_time,
   event_type |-> type, event_description |-> description]

AnomalyEvents(d) ==
  IF has_abnormality /\ d.anomaly_draw > 950
  THEN LET type == AnomalyType(abnormality_factor, d.split_draw)
       IN <<Event(type, AnomalyDescription(type))>>
  ELSE <<>>

BackgroundEvents(d) ==
  IF d.background_draw > 995
  THEN LET type == event_types[d.choice]
       IN <<Event(type, BackgroundDescription(type))>>
  ELSE <<>>

\* reactive energy taken from the totals before this step
MeasurementStaleReactive(clf, ef) ==
  LET active_energy_import == cumulative_energy_import + ImportAccrual(clf)
      active_energy_export == cumulative_energy_export + ExportAccrual(ef)
  IN [meter_id |-> meter_ids[meter_idx],
      timestamp |-> current_time,
      active_energy_import_kwh |-> active_energy_import,
      reactive_energy_import_kvarh |-> ReactiveImport(cumulative_energy_import),
      active_energy_export_kwh |-> active_energy_export,
      reactive_energy_export_kvarh |-> ReactiveExport(cumulative_energy_export),
      maximum_demand_kw |-> Watermark(max_demand, clf)]

\* the meter taken by record position, as if the two loops were exchanged
MeasurementInterleaved(clf, ef) ==
  LET active_energy_import == cumulative_energy_import + ImportAccrual(clf)
      active_energy_export == cumulative_energy_export + ExportAccrual(ef)
  IN [meter_id |-> meter_ids[(Len(all_measurements) % Len(meter_ids)) + 1],
      timestamp |-> current_time,
      active_energy_import_kwh |-> active_energy_import,
      reactive_energy_import_kvarh |-> ReactiveImport(active_energy_import),
      active_energy_export_kwh |-> active_energy_export,
      reactive_energy_export_kvarh |-> ReactiveExport(active_energy_export),
      maximum_demand_kw |-> Watermark(max_demand, clf)]

Measurement(clf, ef) ==
  LET active_energy_import == cumulative_energy_import + ImportAccrual(clf)
      active_energy_export == cumulative_energy_export + ExportAccrual(ef)
  IN [meter_id |-> meter_ids[meter_idx],
      timestamp |-> current_time,
      active_energy_import_kwh |-> active_energy_import,
      reactive_energy_import_kvarh |-> ReactiveImport(active_energy_import),
      active_energy_export_kwh |-> active_energy_export,
      reactive_energy_export_kvarh |-> ReactiveExport(active_energy_export),
      maximum_demand_kw |-> Watermark(max_demand, clf)]

-----------------------------------------------------------------------------
(* State machine *)

Inputs(counts, spans) ==
  /\ num_meters \in counts
  /\ start \in Instants
  /\ end \in Instants
  /\ end - start <= spans /\ start - end <= spans
  /\ interval_minutes \in Intervals

Entered ==
  /\ meter_ids = IF num_meters > 0 THEN [i \in 1..num_meters |-> i] ELSE <<>>
  /\ all_measurements = <<>>
  /\ all_events = <<>>
  /\ meter_idx = 0
  /\ current_time = start
  /\ cumulative_energy_import = 0
  /\ cumulative_energy_export = 0
  /\ max_demand = 0
  /\ abnormality_factor = 10
  /\ has_abnormality = FALSE
  /\ current_load_factor = 0
  /\ export_factor = 0
  /\ pc = "for"

Init == Inputs(MeterCounts, MaxSpan) /\ Entered

\* the next meter taken without lines 55-58: the totals carry over
NextMeterKeepsTotals ==
  /\ pc = "for"
  /\ meter_idx < Len(meter_ids)
  /\ meter_idx' = meter_idx + 1
  /\ current_time' = start
  /\ \E f \in FactorDraws :
       /\ abnormality_factor' = DrawFactor(f)
       /\ has_abnormality' = (DrawFactor(f) # 10)
  /\ pc' = "while"
  /\ UNCHANGED <<num_meters, start, end, interval_minutes, meter_ids,
                 all_measurements, all_events, current_load_factor,
                 export_factor, max_demand, cumulative_energy_import,
                 cumulative_energy_export>>

\* for meter_id in meter_ids: lines 52-60
NextMeter ==
  /\ pc = "for"
  /\ meter_idx < Len(meter_ids)
  /\ meter_idx' = meter_idx + 1
  /\ current_time' = start
  /\ max_demand' = 0
  /\ cumulative_energy_import' = 0
  /\ cumulative_energy_export' = 0
  /\ \E f \in FactorDraws :
       /\ abnormality_factor' = DrawFactor(f)
       /\ has_abnormality' = (DrawFactor(f) # 10)
  /\ pc' = "while"
  /\ UNCHANGED <<num_meters, start, end, interval_minutes, meter_ids,
                 all_measurements, all_events, current_load_factor,
                 export_factor>>

\* one pass of the while loop, lines 63-166, with the draws d
Iterate(d) ==
  LET clf == LoadFactor(current_time, d.jitter) * abnormality_factor
      ef == ExportFactor(d)
      m == Measurement(clf, ef)
      next_time == current_time + interval_minutes
  IN /\ current_load_factor' = clf
     /\ export_factor' = ef
     /\ cumulative_energy_import' = m.active_energy_import_kwh
     /\ cumulative_energy_export' = m.active_energy_export_kwh
     /\ max_demand' = m.maximum_demand_kw
     /\ all_measurements' = Append(all_measurements, m)
     /\ all_events' = all_events \o AnomalyEvents(d) \o BackgroundEvents(d)
     /\ Len(all_events') <= MaxEvents
     /\ IF InDatetimeRange(next_time)
        THEN current_time' = next_time /\ pc' = "while"
        ELSE current_time' = current_time /\ pc' = "raised"
     /\ UNCHANGED <<num_meters, start, end, interval_minutes, meter_ids,
                    meter_idx, abnormality_factor, has_abnormality>>

LoopStep ==
  /\ pc = "while"
  /\ WhileCond
  /\ Len(all_measurements) < MaxRecords
  /\ \E d \in MeasurementDraws : Iterate(d)

EventLoopStep ==
  /\ pc = "while"
  /\ WhileCond
  /\ Len(all_measurements) < MaxRecords
  /\ \E d \in EventDraws : Iterate(d)

\* the while condition is false: on to the next meter
LoopExit ==
  /\ pc = "while"
  /\ ~WhileCond
  /\ pc' = "for"
  /\ UNCHANGED <<num_meters, start, end, interval_minutes, meter_ids,
                 all_measurements, all_events, meter_idx, current_time,
                 cumulative_energy_import, cumulative_energy_export,
                 max_demand, abnormality_factor, has_abnormality,
                 current_load_factor, export_factor>>

\* lines 168-172
Return ==
  /\ pc = "for"
  /\ meter_idx = Len(meter_ids)
  /\ pc' = "returned"
  /\ UNCHANGED <<num_meters, start, end, interval_minutes, meter_ids,
                 all_measurements, all_events, meter_idx, current_time,
                 cumulative_energy_import, cumulative_energy_export,
                 max_demand, abnormality_factor, has_abnormality,
                 current_load_factor, export_factor>>

Next == NextMeter \/ LoopStep \/ LoopExit \/ Return

Spec == Init /\ [][Next]_vars

\* the same program with the event draws enumerated and the jitter fixed
EventMeterCounts == {1, 2}

InitEvents ==
  /\ Inputs(EventMeterCounts, MaxSpan)
  /\ start \in {MinTime, MinTime + 15, MaxTime - 14}
  /\ end \in {MinTime, MinTime + 15, MaxTime - 14}
  /\ interval_minutes \in {0 - 30, 15}
  /\ Entered

NextEvents == NextMeter \/ EventLoopStep \/ LoopExit \/ Return

SpecEvents == InitEvents /\ [][NextEvents]_vars

-----------------------------------------------------------------------------
(* Helpers of the properties *)

OfMeter(seq, id) == SelectSeq(seq, LAMBDA r : r.meter_id = id)

Finished == pc \in {"returned", "raised"}

\* floor((end - start) / interval) + 1 for end >= start, else 0
ExpectedCount ==
  IF end >= start THEN (end - start) \div interval_minutes + 1 ELSE 0

CountsAndTimestamps ==
  \A id \in 1..num_meters :
    LET recs == OfMeter(all_measurements, id)
    IN /\ Len(recs) = ExpectedCount
       /\ \A k \in 1..Len(recs) :
            recs[k].timestamp = start + (k - 1) * interval_minutes

Grouped(seq) ==
  \A i, j, k \in 1..Len(seq) :
    (i < j /\ j < k /\ seq[i].meter_id = seq[k].meter_id)
      => seq[j].meter_id = seq[i].meter_id

TimeOrdered(seq) ==
  \A i, j \in 1..Len(seq) :
    (i < j /\ seq[i].meter_id = seq[j].meter_id)
      => seq[i].timestamp <= seq[j].timestamp

AnomalyTexts == {"Voltage swell detected", "Voltage sag detected",
                 "Current imbalance", "Phase failure detected"}

IsAnomaly(e) == e.event_description \in AnomalyTexts

NewEvents == SubSeq(all_events', Len(all_events) + 1, Len(all_events'))

-----------------------------------------------------------------------------
(* C1: for every positive interval_minutes the call produces, for each     *)
(* meter, floor((end - start) / interval) + 1 measurements when            *)
(* end >= start and none when start > end, the k-th at start + k*interval. *)
C1_CountPerMeter ==
  interval_minutes > 0 =>
    /\ pc # "raised"
    /\ pc = "returned" => CountsAndTimestamps

\* what does hold: a call that returns has the counts and the timestamps
C1_CountWhenReturned ==
  (interval_minutes > 0 /\ pc = "returned") => CountsAndTimestamps

(* C2: across two consecutive measurements of one meter the imported       *)
(* energy, the exported energy and the maximum demand never decrease, in   *)
(* every result that is returned and in every partial result of a call     *)
(* with a positive interval.                                               *)
C2_NonDecreasing ==
  (interval_minutes > 0 \/ pc = "returned") =>
    \A i \in 1..(Len(all_measurements) - 1) :
      LET a == all_measurements[i]
          b == all_measurements[i + 1]
      IN a.meter_id = b.meter_id =>
           /\ a.active_energy_import_kwh <= b.active_energy_import_kwh
           /\ a.active_energy_export_kwh <= b.active_energy_export_kwh
           /\ a.maximum_demand_kw <= b.maximum_demand_kw

C2_Witness ==
  /\ pc = "returned"
  /\ \E i \in 1..(Len(all_measurements) - 1) :
       LET a == all_measurements[i]
           b == all_measurements[i + 1]
       IN /\ a.meter_id = b.meter_id
          /\ a.active_energy_import_kwh < b.active_energy_import_kwh
          /\ a.active_energy_export_kwh < b.active_energy_export_kwh
          /\ a.maximum_demand_kw = b.maximum_demand_kw

C4_NonPositiveReturns ==
  (num_meters <= 0 \/ interval_minutes <= 0) => pc # "raised"

(* C5 as written: a start after the end fails instead of returning.        *)
C5_InvertedRangeFails == start > end => pc # "returned"

(* C5: a start after the end is no error: the call never raises, and it    *)
(* appends no measurement and no event before it returns.                  *)
C5_InvertedRangeIsEmpty ==
  start > end =>
    /\ pc # "raised"
    /\ all_measurements = <<>>
    /\ all_events = <<>>

C5_Witness ==
  /\ start > end
  /\ num_meters = 2
  /\ meter_idx = 2
  /\ pc = "returned"

(* C6: the event_type of every event, of the anomaly branch or of the      *)
(* background branch, is one of the nine fixed types.                      *)
C6_EventTypeInSet ==
  \A i \in 1..Len(all_events) :
    all_events[i].event_type \in
      {"POWER_OUTAGE", "VOLTAGE_SAG", "VOLTAGE_SWELL", "TAMPER_DETECTED",
       "METER_COVER_OPENED", "CURRENT_IMBALANCE", "PHASE_FAILURE",
       "HIGH_TEMPERATURE", "METER_RESET"}

C6_Witness ==
  /\ Len(all_events) = 2
  /\ IsAnomaly(all_events[1])
  /\ ~IsAnomaly(all_events[2])
  /\ all_events[2].event_type = "METER_RESET"

(* C7: in every measurement the reactive import is 0.15 times the active   *)
(* import of the same record and the reactive export 0.1 times the active  *)
(* export (reactive energy is in hundredths of the active unit).           *)
C7_ReactiveDerived ==
  \A i \in 1..Len(all_measurements) :
    LET r == all_measurements[i]
    IN /\ r.reactive_energy_import_kvarh = 15 * r.active_energy_import_kwh
       /\ r.reactive_energy_export_kvarh = 10 * r.active_energy_export_kwh

C7_Witness ==
  /\ Len(all_measurements) >= 2
  /\ all_measurements[2].meter_id = all_measurements[1].meter_id
  /\ all_measurements[2].active_energy_export_kwh > 0
  /\ all_measurements[2].reactive_energy_export_kvarh > 0
  /\ all_measurements[2].reactive_energy_import_kvarh
       > all_measurements[1].reactive_energy_import_kvarh

(* C8: an anomaly event of the meter being generated exists only if its    *)
(* abnormality_factor is not 1.0, there is at most one per step, and its   *)
(* type is VOLTAGE_SWELL for a factor above 1.2, else VOLTAGE_SAG for a    *)
(* factor below 0.8, else CURRENT_IMBALANCE or PHASE_FAILURE.              *)
C8_AnomalyDecision ==
  \A i \in 1..Len(all_events) :
    LET e == all_events[i]
    IN (meter_idx > 0 /\ e.meter_id = meter_ids[meter_idx] /\ IsAnomaly(e)) =>
         /\ abnormality_factor # 10
         /\ abnormality_factor > 12 => e.event_type = "VOLTAGE_SWELL"
         /\ abnormality_factor < 8 => e.event_type = "VOLTAGE_SAG"
         /\ (abnormality_factor >= 8 /\ abnormality_factor <= 12) =>
              e.event_type \in {"CURRENT_IMBALANCE", "PHASE_FAILURE"}
         /\ \A j \in 1..Len(all_events) :
              (j # i /\ IsAnomaly(all_events[j])
                 /\ all_events[j].meter_id = e.meter_id)
                => all_events[j].timestamp # e.timestamp

C8_Witness ==
  /\ meter_idx > 0
  /\ abnormality_factor > 12
  /\ Len(all_events) = 2
  /\ all_events[1].meter_id = meter_ids[meter_idx]
  /\ all_events[2].meter_id = meter_ids[meter_idx]
  /\ all_events[1].event_type = "VOLTAGE_SWELL"
  /\ IsAnomaly(all_events[1])
  /\ all_events[2].event_type = "VOLTAGE_SAG"
  /\ ~IsAnomaly(all_events[2])

(* C9: a step appends between 0 and 2 events, an anomaly event before a    *)
(* background event, only together with a measurement, and each of them    *)
(* carries the meter_id and the timestamp of that measurement.             *)
C9_EventsOfStep ==
  [][/\ Len(all_events') >= Len(all_events)
     /\ Len(all_events') <= Len(all_events) + 2
     /\ SubSeq(all_events', 1, Len(all_events)) = all_events
     /\ Len(all_events') > Len(all_events) =>
          /\ Len(all_measurements') = Len(all_measurements) + 1
          /\ \A n \in 1..Len(NewEvents) :
               /\ NewEvents[n].meter_id
                    = all_measurements'[Len(all_measurements')].meter_id
               /\ NewEvents[n].timestamp
                    = all_measurements'[Len(all_measurements')].timestamp
          /\ Len(NewEvents) = 2 =>
               IsAnomaly(NewEvents[1]) /\ ~IsAnomaly(NewEvents[2])]_vars

C9_Witness ==
  /\ Len(all_events) = 2
  /\ Len(all_measurements) = 2
  /\ all_events[1].meter_id = all_measurements[2].meter_id
  /\ all_events[2].meter_id = all_measurements[2].meter_id
  /\ all_events[1].timestamp = all_measurements[2].timestamp
  /\ all_events[2].timestamp = all_measurements[2].timestamp
  /\ all_measurements[1].meter_id = all_measurements[2].meter_id

(* C10: for a positive interval the first measurement of every meter       *)
(* starts from zero: its export is 0 or 0.3 * 1.5 * interval / 60, its     *)
(* import is the accrual of that one step and its maximum demand is 0.8    *)
(* times the demand of that step, whatever earlier meters recorded.        *)
C10_FreshMeterState ==
  interval_minutes > 0 =>
    \A i \in 1..Len(all_measurements) :
      LET r == all_measurements[i]
          first == \A j \in 1..(i - 1) : all_measurements[j].meter_id # r.meter_id
      IN first =>
           /\ r.active_energy_export_kwh \in {0, 450 * interval_minutes * 100}
           /\ i = Len(all_measurements) =>
                /\ r.active_energy_import_kwh
                     = current_load_factor * 25 * interval_minutes
                /\ r.maximum_demand_kw * 10
                     = 8 * current_load_factor * 230

C10_Witness ==
  /\ interval_minutes > 0
  /\ Len(all_measurements) = 3
  /\ all_measurements[1].meter_id = all_measurements[2].meter_id
  /\ all_measurements[2].meter_id # all_measurements[3].meter_id
  /\ all_measurements[2].active_energy_export_kwh > 0
  /\ all_measurements[3].active_energy_export_kwh = 0
  /\ all_measurements[3].maximum_demand_kw < all_measurements[2].maximum_demand_kw

====
